---- MODULE Spec2Model ----
(***************************************************************************)
(* VideoCamera.get_frame (camera.py) as a state machine: the privacy       *)
(* toggle, the capture device, the detector, and the per-frame pipeline    *)
(* (classification, target selection, steering, obstacle lanes, advisory,  *)
(* the except handler), driven by the streaming loop gen() of app.py.      *)
(*                                                                         *)
(* A detection is [x1, y1, x2, y2, label]: the integer box of              *)
(* map(int, box.xyxy[0]) and the label looked up in names. The confidence  *)
(* is only printed next to the box and is left out.                        *)
(***************************************************************************)
EXTENDS Integers, Sequences, FiniteSets, TLC

VARIABLES
    is_running,     \* VideoCamera.is_running, the privacy toggle
    model,          \* VideoCamera.model: None or the loaded detector
    target_id,      \* VideoCamera.target_id (reserved, never used)
    video_opened,   \* what self.video.isOpened() answers
    streaming,      \* gen() is still iterating (no exception left get_frame)
    inp,            \* the last get_frame call: is_running as read, and the frame scenario
    out,            \* what the last get_frame call returned and which collaborators it called
    faulty_before,  \* how many faulty frames immediately preceded the last call (saturating)
    ref,            \* a remembered earlier call (inputs and result)
    VideoCamera,    \* app.py: the imported class is there (TRUE) or None after ImportError
    global_camera,  \* app.py global_camera: 0 for None, else the instance it names
    constructed,    \* how many VideoCamera instances were constructed so far
    th              \* the request each server thread handles, and where it is in it

appvars == <<VideoCamera, global_camera, constructed, th>>

vars == <<is_running, model, target_id, video_opened, streaming, inp, out, faulty_before, ref,
          VideoCamera, global_camera, constructed, th>>

None == "None"

\* ------------------------------------------------------------------ bounds

MaxDet == 2
TargetMaxDet == 3
SteerMaxDet == 2
LaneMaxDet == 3
IdemMaxDet == 1
MaxFaultRun == 2
NThreads == 2

\* ------------------------------------------------------- program constants

Width == 640
Height == 480

OBSTACLE_LABELS ==
    { "obstacle", "chair", "bench", "table", "backpack", "handbag", "suitcase",
      "bicycle", "motorbike", "car", "truck", "dog", "cat", "traffic light",
      "stop sign" }

\* str.lower() on the labels the detector emits here
Lower(label) ==
    CASE label = "Person" -> "person"
      [] label = "PERSON" -> "person"
      [] label = "Dog" -> "dog"
      [] label = "Chair" -> "chair"
      [] label = "STOP SIGN" -> "stop sign"
      [] OTHER -> label

\* ------------------------------------------------------------- classification

Classify(label) ==
    IF Lower(label) = "person" THEN "PERSON"
    ELSE IF Lower(label) \in OBSTACLE_LABELS THEN "OBSTACLE"
    ELSE "OTHER"

IsPerson(d) == Classify(d.label) = "PERSON"
IsObstacle(d) == Classify(d.label) = "OBSTACLE"

\* the lists people and obstacles after the loop over boxes
People(dets) == SelectSeq(dets, IsPerson)
Obstacles(dets) == SelectSeq(dets, IsObstacle)

\* ------------------------------------------------------------ target selection

Area(d) == (d.x2 - d.x1) * (d.y2 - d.y1)

\* the loop "for x1, y1, x2, y2, conf, _ in people", target_box as <<>> (None) or <<box>>
RECURSIVE ScanPeople(_, _, _)
ScanPeople(people, max_area, target_box) ==
    IF people = <<>> THEN target_box
    ELSE IF Area(Head(people)) > max_area
         THEN ScanPeople(Tail(people), Area(Head(people)), <<Head(people)>>)
         ELSE ScanPeople(Tail(people), max_area, target_box)

SelectTarget(people) == ScanPeople(people, 0, <<>>)

\* -------------------------------------------------------------------- steering

Steering_hysteresis(t, width) ==
    LET deviation == ((t.x1 + t.x2) \div 2) - (width \div 2)
    IN  IF deviation < -50 THEN "LEFT"
        ELSE IF deviation > 50 THEN "RIGHT"
        ELSE IF out.direction # None THEN out.direction
        ELSE "FORWARD"

Steering_inclusive(t, width) ==
    LET deviation == ((t.x1 + t.x2) \div 2) - (width \div 2)
    IN  IF deviation <= -50 THEN "LEFT"
        ELSE IF deviation >= 50 THEN "RIGHT"
        ELSE "FORWARD"

Steering(t, width) ==
    LET center_x == width \div 2
        target_cx == (t.x1 + t.x2) \div 2
        deviation == target_cx - center_x
    IN  IF deviation < -50 THEN "LEFT"
        ELSE IF deviation > 50 THEN "RIGHT"
        ELSE "FORWARD"

\* the steering arrow: from the bottom centre to the target's base
Arrow(t, width, height) ==
    << <<width \div 2, height - 50>>, <<(t.x1 + t.x2) \div 2, t.y2>> >>

\* --------------------------------------------------------------- obstacle lanes

DangerZoneY_half(height) == height \div 2

\* int(height * 0.6)
DangerZoneY(height) == (height * 6) \div 10

NoLanes == [left_blocked |-> FALSE, center_blocked |-> FALSE, right_blocked |-> FALSE]

LaneOf_swapped(o, width) ==
    LET ocx == (o.x1 + o.x2) \div 2
    IN  IF ocx <= width \div 3 THEN "LEFT"
        ELSE IF ocx > (2 * width) \div 3 THEN "RIGHT"
        ELSE "CENTER"

LaneOf(o, width) ==
    LET mid_left == width \div 3
        mid_right == (2 * width) \div 3
        ocx == (o.x1 + o.x2) \div 2
    IN  IF ocx < mid_left THEN "LEFT"
        ELSE IF ocx > mid_right THEN "RIGHT"
        ELSE "CENTER"

\* the loop "for ox1, oy1, ox2, oy2, _, _ in obstacles"
RECURSIVE ScanObstacles(_, _, _, _)
ScanObstacles(obstacles, width, height, lanes) ==
    IF obstacles = <<>> THEN lanes
    ELSE LET o == Head(obstacles)
             rest == Tail(obstacles)
         IN  IF o.y2 < DangerZoneY(height)
             THEN ScanObstacles(rest, width, height, lanes)
             ELSE IF LaneOf(o, width) = "LEFT"
             THEN ScanObstacles(rest, width, height, [lanes EXCEPT !.left_blocked = TRUE])
             ELSE IF LaneOf(o, width) = "RIGHT"
             THEN ScanObstacles(rest, width, height, [lanes EXCEPT !.right_blocked = TRUE])
             ELSE ScanObstacles(rest, width, height, [lanes EXCEPT !.center_blocked = TRUE])

Advisory_right_first(lanes) ==
    IF lanes.center_blocked
    THEN IF ~lanes.right_blocked THEN "OBSTACLE AHEAD - GO RIGHT"
         ELSE IF ~lanes.left_blocked THEN "OBSTACLE AHEAD - GO LEFT"
         ELSE "OBSTACLE AHEAD - STOP"
    ELSE IF lanes.left_blocked /\ ~lanes.right_blocked THEN "KEEP RIGHT"
    ELSE IF lanes.right_blocked /\ ~lanes.left_blocked THEN "KEEP LEFT"
    ELSE None

\* avoid_text
Advisory(lanes) ==
    IF lanes.center_blocked
    THEN IF ~lanes.left_blocked THEN "OBSTACLE AHEAD - GO LEFT"
         ELSE IF ~lanes.right_blocked THEN "OBSTACLE AHEAD - GO RIGHT"
         ELSE "OBSTACLE AHEAD - STOP"
    ELSE IF lanes.left_blocked /\ ~lanes.right_blocked THEN "KEEP RIGHT"
    ELSE IF lanes.right_blocked /\ ~lanes.left_blocked THEN "KEEP LEFT"
    ELSE None

\* ------------------------------------------------------------------- faults

\* A fault is the place in the try block at which an exception is raised, if the
\* call gets there: the detector call, the k-th pass of the loop over boxes, the
\* loop over people, the steering arrow, the loop over obstacles.
NoFault == [at |-> "none", k |-> 0]
DetectorFault == [at |-> "detector", k |-> 0]

Faults(n) ==
    { NoFault, DetectorFault, [at |-> "select", k |-> 0], [at |-> "steer", k |-> 0],
      [at |-> "obstacle", k |-> 0] }
    \cup { [at |-> "classify", k |-> i] : i \in 1..n }

\* whether the call, given these detections, reaches the place and raises
Raised(dets, fault) ==
    CASE fault.at = "none" -> FALSE
      [] fault.at = "detector" -> TRUE
      [] fault.at = "classify" -> fault.k <= Len(dets)
      [] fault.at = "select" -> People(dets) # <<>>
      [] fault.at = "steer" -> SelectTarget(People(dets)) # <<>>
      [] fault.at = "obstacle" -> Obstacles(dets) # <<>>

\* how far the try block got: the stage that raised, 6 when none did
StageOf(at) ==
    CASE at = "detector" -> 1
      [] at = "classify" -> 2
      [] at = "select" -> 3
      [] at = "steer" -> 4
      [] at = "obstacle" -> 5
      [] OTHER -> 6

\* the source line that raises
FaultLine(fault) ==
    CASE fault.at = "detector" -> 100
      [] fault.at = "classify" -> 112
      [] fault.at = "select" -> 154
      [] fault.at = "steer" -> 175
      [] fault.at = "obstacle" -> 218
      [] OTHER -> 0

\* len(str(e)) of the exception each place raises here: around the cap of 30
ErrLen(fault) ==
    CASE fault.at = "detector" -> 45
      [] fault.at = "classify" -> 31
      [] fault.at = "select" -> 30
      [] fault.at = "steer" -> 12
      [] fault.at = "obstacle" -> 29
      [] OTHER -> 0

\* len(error_msg), error_msg = err_str[:30] if len(err_str) > 30 else err_str
Truncated(len) == IF len > 30 THEN 30 ELSE len

TryCovers_detector_only(line) == line >= 99 /\ line <= 105

\* the lines between "try:" and "except Exception as e:"
TryCovers(line) == line >= 91 /\ line <= 270

\* ----------------------------------------------------------------- get_frame

NoFrame ==
    [kind |-> "none", text |-> {}, calls |-> {}, boxes |-> 0, strong |-> FALSE,
     arrow |-> <<>>, target |-> <<>>, direction |-> None, lanes |-> NoLanes,
     advisory |-> None, propagated |-> FALSE, errlen |-> 0]

get_blank_frame(message, calls) ==
    [NoFrame EXCEPT !.kind = "blank", !.text = {message}, !.calls = calls]

Gate_camera_first(running, opened, readok) ==
    IF ~opened THEN [msg |-> "Camera Not Accessible", calls |-> {"isOpened"}]
    ELSE IF ~running THEN [msg |-> "PRIVACY MODE ON", calls |-> {"isOpened"}]
    ELSE IF ~readok THEN [msg |-> "No Camera Signal", calls |-> {"isOpened", "read"}]
    ELSE [msg |-> None, calls |-> {"isOpened", "read"}]

Gate_read_first(running, opened, readok) ==
    IF ~running THEN [msg |-> "PRIVACY MODE ON", calls |-> {"isOpened", "read"}]
    ELSE IF ~opened THEN [msg |-> "Camera Not Accessible", calls |-> {"isOpened"}]
    ELSE IF ~readok THEN [msg |-> "No Camera Signal", calls |-> {"isOpened", "read"}]
    ELSE [msg |-> None, calls |-> {"isOpened", "read"}]

\* the three early returns: the placeholder message (None: go on) and the calls
\* made on the capture device
Gate(running, opened, readok) ==
    IF ~running THEN [msg |-> "PRIVACY MODE ON", calls |-> {}]
    ELSE IF ~opened THEN [msg |-> "Camera Not Accessible", calls |-> {"isOpened"}]
    ELSE IF ~readok THEN [msg |-> "No Camera Signal", calls |-> {"isOpened", "read"}]
    ELSE [msg |-> None, calls |-> {"isOpened", "read"}]

\* the branch "if self.model is not None" of the try block, with the except handler:
\* the image drawn on in place, and the locals as they are when the block is left
Detect(dets, fault, calls) ==
    LET stop == IF Raised(dets, fault) THEN StageOf(fault.at) ELSE 6
        width == Width
        height == Height
        people == People(dets)
        obstacles == Obstacles(dets)
        boxes == IF stop = 1 THEN 0
                 ELSE IF stop = 2 THEN fault.k - 1
                 ELSE Len(dets)
        target_box == IF dets # <<>> /\ people # <<>> /\ stop > 3
                      THEN SelectTarget(people) ELSE <<>>
        strong == target_box # <<>>
        steered == target_box # <<>> /\ stop > 4
        direction_text == IF steered THEN Steering(target_box[1], width) ELSE None
        analysed == dets # <<>> /\ obstacles # <<>> /\ stop > 5
        lanes == IF analysed THEN ScanObstacles(obstacles, width, height, NoLanes)
                 ELSE NoLanes
        avoid_text == IF analysed THEN Advisory(lanes) ELSE None
    IN  [kind |-> "image",
         text |-> (IF steered THEN {"STEERING: " \o direction_text} ELSE {})
                  \cup (IF avoid_text # None THEN {avoid_text} ELSE {})
                  \cup (IF dets = <<>> /\ stop = 6 THEN {"SEARCHING FOR USER..."} ELSE {})
                  \cup (IF stop < 6 THEN {"Detection Error"} ELSE {}),
         calls |-> calls \cup {"model"},
         boxes |-> boxes,
         strong |-> strong,
         arrow |-> IF steered THEN Arrow(target_box[1], width, height) ELSE <<>>,
         target |-> target_box,
         direction |-> direction_text,
         lanes |-> lanes,
         advisory |-> avoid_text,
         propagated |-> stop < 6 /\ ~TryCovers(FaultLine(fault)),
         errlen |-> IF stop < 6 THEN Truncated(ErrLen(fault)) ELSE 0]

\* sc: what the capture device and the detector give this call
get_frame(running, opened, mdl, sc) ==
    LET gate == Gate(running, opened, sc.readok)
    IN  IF gate.msg # None THEN get_blank_frame(gate.msg, gate.calls)
        ELSE IF mdl # None THEN Detect(sc.dets, sc.fault, gate.calls)
        ELSE [NoFrame EXCEPT !.kind = "image", !.text = {"YOLO MODEL UNAVAILABLE"},
                             !.calls = gate.calls]

\* the mode of section 4.5 a returned frame shows
Mode(o) ==
    IF o.kind = "blank" /\ "PRIVACY MODE ON" \in o.text THEN "PRIVACY"
    ELSE IF o.kind = "blank" /\ "Camera Not Accessible" \in o.text THEN "NO_CAMERA"
    ELSE IF o.kind = "blank" /\ "No Camera Signal" \in o.text THEN "NO_SIGNAL"
    ELSE IF o.kind = "image" /\ "YOLO MODEL UNAVAILABLE" \in o.text THEN "NO_MODEL"
    ELSE IF o.kind = "image" /\ "Detection Error" \in o.text THEN "DETECTION_ERROR"
    ELSE IF o.kind = "image" THEN "ACTIVE"
    ELSE None

\* --------------------------------------------------------- the frames offered

Det(x1, y1, x2, y2, label) == [x1 |-> x1, y1 |-> y1, x2 |-> x2, y2 |-> y2, label |-> label]

\* a person, a person of no area, an obstacle in the near field, a class that is neither
Dets ==
    { Det(100, 100, 200, 300, "person"), Det(50, 60, 50, 200, "person"),
      Det(280, 200, 360, 400, "chair"), Det(400, 20, 450, 60, "kite") }

\* people of equal area, a larger one, one of no area, and a non-person
TargetDets ==
    { Det(100, 100, 200, 300, "person"), Det(300, 50, 500, 150, "Person"),
      Det(250, 100, 400, 400, "person"), Det(50, 60, 50, 200, "person"),
      Det(0, 0, 640, 480, "kite") }

\* people whose centres lie at and beside the two edges of the deadband, the three
\* centres 220, 400, 300, and one left of the frame (an odd negative sum)
SteerDets ==
    { Det(170, 100, 270, 300, "person"), Det(219, 40, 320, 460, "person"),
      Det(220, 100, 320, 200, "person"), Det(250, 10, 350, 470, "Person"),
      Det(320, 100, 421, 300, "person"), Det(321, 200, 421, 250, "person"),
      Det(350, 100, 450, 300, "person"), Det(-141, 100, -20, 300, "person") }

\* obstacles whose centres lie at and beside the two lane edges, on and just above
\* the danger line
LaneDets ==
    { Det(162, 200, 262, 300, "chair"), Det(163, 200, 263, 288, "Dog"),
      Det(376, 300, 477, 470, "obstacle"), Det(377, 300, 477, 470, "stop sign"),
      Det(100, 100, 200, 287, "car") }

\* a person left of the deadband, one inside it, an obstacle in the near field
IdemDets ==
    { Det(100, 100, 200, 300, "person"), Det(270, 100, 370, 300, "person"),
      Det(280, 200, 360, 400, "chair") }

SeqsUpTo(S, n) == UNION { [1..k -> S] : k \in 0..n }

Places == {"detector", "classify", "select", "steer", "obstacle"}

\* what one call can meet: no frame; a frame on which the detector raises; or a frame,
\* its detections, and a place (among F) at which these detections make the call
\* raise, or none
Scenarios(S, n, F) ==
    { [readok |-> FALSE, dets |-> <<>>, fault |-> NoFault] }
    \cup { [readok |-> TRUE, dets |-> <<>>, fault |-> f] : f \in {DetectorFault} \cap
             { g \in Faults(n) : g.at \in F } }
    \cup UNION { { [readok |-> TRUE, dets |-> d, fault |-> f] :
                     f \in { g \in Faults(n) \ {DetectorFault} :
                               g = NoFault \/ (g.at \in F /\ Raised(d, g)) } } :
                 d \in SeqsUpTo(S, n) }

\* the part of it a call consumes: nothing is read from a device that is not asked,
\* and no detections exist when no detector runs
Offered(S, n, F, calls, mdl) ==
    IF "read" \notin calls THEN { [readok |-> FALSE, dets |-> <<>>, fault |-> NoFault] }
    ELSE IF mdl = None
    THEN { sc \in Scenarios(S, n, F) : sc.dets = <<>> /\ sc.fault = NoFault }
    ELSE Scenarios(S, n, F)

\* ------------------------------------------------------------------- actions

NoCall == [running |-> TRUE, readok |-> FALSE, dets |-> <<>>, fault |-> NoFault]

NoRef == [set |-> FALSE, inp |-> NoCall, out |-> NoFrame, fb |-> 0]

Threads == 1..NThreads

\* a thread between requests
Idle ==
    [pc |-> "idle", kind |-> "none", body |-> "none", tmp |-> 0, cam |-> 0,
     should_run |-> TRUE, running |-> "none"]

\* VideoCamera.__init__: the device may or may not open, the model may or may not load;
\* the instance is the one global_camera names, and no request is being handled
Init ==
    /\ VideoCamera = TRUE
    /\ global_camera = 1
    /\ constructed = 1
    /\ th = [t \in Threads |-> Idle]
    /\ is_running = TRUE
    /\ model \in {None, "yolov8n.pt"}
    /\ target_id = None
    /\ video_opened \in BOOLEAN
    /\ streaming = TRUE
    /\ inp = NoCall
    /\ out = NoFrame
    /\ faulty_before = 0
    /\ ref = NoRef

\* one pass of gen(): frame = camera.get_frame(), on a frame drawn from S
GetFrame(S, n, F) ==
    /\ streaming
    /\ \E sc \in Offered(S, n, F, Gate(is_running, video_opened, TRUE).calls, model) :
         LET r == get_frame(is_running, video_opened, model, sc)
         IN  /\ inp' = [running |-> is_running, readok |-> sc.readok,
                        dets |-> sc.dets, fault |-> sc.fault]
             /\ streaming' = ~r.propagated
             /\ out' = IF r.propagated THEN out ELSE r
             /\ faulty_before' =
                    IF Mode(out) # "DETECTION_ERROR" THEN 0
                    ELSE IF faulty_before < MaxFaultRun THEN faulty_before + 1
                    ELSE faulty_before
    /\ UNCHANGED <<is_running, model, target_id, video_opened, ref>>
    /\ UNCHANGED appvars

\* VideoCamera.set_running
SetRunning ==
    /\ \E running \in BOOLEAN : is_running' = running
    /\ UNCHANGED <<model, target_id, video_opened, streaming, inp, out, faulty_before, ref>>
    /\ UNCHANGED appvars

\* remember the last call, to compare a later one with it
Snapshot ==
    /\ out.kind # "none"
    /\ ref' = [set |-> TRUE, inp |-> inp, out |-> out, fb |-> faulty_before]
    /\ UNCHANGED <<is_running, model, target_id, video_opened, streaming, inp, out,
                   faulty_before>>
    /\ UNCHANGED appvars

Next == GetFrame(Dets, MaxDet, Places) \/ SetRunning
Spec == Init /\ [][Next]_vars

NextTarget == GetFrame(TargetDets, TargetMaxDet, {}) \/ SetRunning
SpecTarget == Init /\ [][NextTarget]_vars

NextSteer == GetFrame(SteerDets, SteerMaxDet, {}) \/ SetRunning
SpecSteer == Init /\ [][NextSteer]_vars

NextLanes == GetFrame(LaneDets, LaneMaxDet, {}) \/ SetRunning
SpecLanes == Init /\ [][NextLanes]_vars

NextIdem == GetFrame(IdemDets, IdemMaxDet, {"detector", "steer"}) \/ SetRunning \/ Snapshot
SpecIdem == Init /\ [][NextIdem]_vars

\* ------------------------------------------------------ app.py: get_camera

camvars == <<is_running, model, target_id, video_opened, streaming, inp, out, faulty_before, ref>>

\* the process after "global_camera = None": no camera yet; the fields are those every
\* instance starts with
InitApp ==
    /\ VideoCamera \in BOOLEAN
    /\ global_camera = 0
    /\ constructed = 0
    /\ th = [t \in Threads |-> Idle]
    /\ is_running = TRUE
    /\ model \in {None, "yolov8n.pt"}
    /\ target_id = None
    /\ video_opened \in BOOLEAN
    /\ streaming = TRUE
    /\ inp = NoCall
    /\ out = NoFrame
    /\ faulty_before = 0
    /\ ref = NoRef

\* the handlers that call get_camera
Handlers == {"video_feed", "toggle_camera", "camera_control", "health"}

\* a request arrives on thread t and its handler calls get_camera()
Request(t) ==
    /\ th[t].pc = "idle"
    /\ \E kind \in Handlers :
         th' = [th EXCEPT ![t] = [Idle EXCEPT !.pc = "check", !.kind = kind]]
    /\ UNCHANGED <<VideoCamera, global_camera, constructed>>
    /\ UNCHANGED camvars

\* "if global_camera is None:" and "if VideoCamera:"
GcCheck(t) ==
    /\ th[t].pc = "check"
    /\ th' = [th EXCEPT ![t].pc =
                IF global_camera = 0 /\ VideoCamera THEN "construct" ELSE "return"]
    /\ UNCHANGED <<VideoCamera, global_camera, constructed>>
    /\ UNCHANGED camvars

\* "VideoCamera()": opens the device and loads the model; a new instance
GcConstruct(t) ==
    /\ th[t].pc = "construct"
    /\ constructed' = constructed + 1
    /\ th' = [th EXCEPT ![t].pc = "store", ![t].tmp = constructed + 1]
    /\ UNCHANGED <<VideoCamera, global_camera>>
    /\ UNCHANGED camvars

\* "global_camera = ..."
GcStore(t) ==
    /\ th[t].pc = "store"
    /\ global_camera' = th[t].tmp
    /\ th' = [th EXCEPT ![t].pc = "return"]
    /\ UNCHANGED <<VideoCamera, constructed>>
    /\ UNCHANGED camvars

\* "return global_camera"
GcReturn(t) ==
    /\ th[t].pc = "return"
    /\ th' = [th EXCEPT ![t].pc = "got", ![t].cam = global_camera]
    /\ UNCHANGED <<VideoCamera, global_camera, constructed>>
    /\ UNCHANGED camvars

\* the rest of the handler; the thread is free for the next request
Finish(t) ==
    /\ th[t].pc = "got"
    /\ th' = [th EXCEPT ![t].pc = "idle"]
    /\ UNCHANGED <<VideoCamera, global_camera, constructed>>
    /\ UNCHANGED camvars

NextSingleton ==
    \E t \in Threads :
        Request(t) \/ GcCheck(t) \/ GcConstruct(t) \/ GcStore(t) \/ GcReturn(t) \/ Finish(t)
SpecSingleton == InitApp /\ [][NextSingleton]_vars

\* ------------------------------------- app.py: toggle_camera, camera_control

\* a POST arrives on thread t: /api/toggle_camera or /api/camera_control, its JSON body
\* giving the key ("run", "on") as true or false, or not at all; the handler calls
\* get_camera()
Post(t) ==
    /\ th[t].pc = "idle"
    /\ \E kind \in {"toggle_camera", "camera_control"}, body \in {"true", "false", "none"} :
         th' = [th EXCEPT ![t] = [Idle EXCEPT !.pc = "check", !.kind = kind, !.body = body]]
    /\ UNCHANGED <<VideoCamera, global_camera, constructed>>
    /\ UNCHANGED camvars

\* toggle_camera: "if cam is None" ... "should_run = not getattr(cam, "is_running", True)"
ToggleDecide(t) ==
    /\ th[t].pc = "got"
    /\ th[t].kind = "toggle_camera"
    /\ th' = [th EXCEPT ![t] =
                IF th[t].cam = 0
                THEN [@ EXCEPT !.pc = "done", !.running = "error"]
                ELSE [@ EXCEPT !.pc = "set",
                               !.should_run = IF th[t].body = "none" THEN ~is_running
                                              ELSE th[t].body = "true"]]
    /\ UNCHANGED <<VideoCamera, global_camera, constructed>>
    /\ UNCHANGED camvars

\* camera_control: "should_run = bool(data.get('on', True))"
ControlDecide(t) ==
    /\ th[t].pc = "got"
    /\ th[t].kind = "camera_control"
    /\ th' = [th EXCEPT ![t] =
                IF th[t].cam = 0
                THEN [@ EXCEPT !.pc = "done", !.running = "error"]
                ELSE [@ EXCEPT !.pc = "set", !.should_run = (th[t].body # "false")]]
    /\ UNCHANGED <<VideoCamera, global_camera, constructed>>
    /\ UNCHANGED camvars

\* "cam.set_running(should_run)"
HandlerSet(t) ==
    /\ th[t].pc = "set"
    /\ is_running' = th[t].should_run
    /\ th' = [th EXCEPT ![t].pc = "respond"]
    /\ UNCHANGED <<VideoCamera, global_camera, constructed>>
    /\ UNCHANGED <<model, target_id, video_opened, streaming, inp, out, faulty_before, ref>>

\* "return jsonify({..., "running": should_run})"
HandlerRespond(t) ==
    /\ th[t].pc = "respond"
    /\ th' = [th EXCEPT ![t].pc = "done",
                        ![t].running = IF th[t].should_run THEN "true" ELSE "false"]
    /\ UNCHANGED <<VideoCamera, global_camera, constructed>>
    /\ UNCHANGED camvars

\* each thread handles one request, the camera being there and ON
NextToggle ==
    \E t \in Threads :
        Post(t) \/ GcCheck(t) \/ GcReturn(t) \/ ToggleDecide(t) \/ ControlDecide(t)
          \/ HandlerSet(t) \/ HandlerRespond(t)
SpecToggle == Init /\ [][NextToggle]_vars

\* --------------------------------------------------------------- properties

\* the last call ran the whole pipeline
Active == Mode(out) = "ACTIVE"

\* C1: whenever the detections of an ACTIVE frame hold at least one person, a target
\* is selected, it has the largest area (x2-x1)*(y2-y1) among the people, and it is
\* the first person of that area in input order.
C1_TargetIsFirstLargestPerson ==
    LET people == People(inp.dets)
        largest(i) == \A j \in 1..Len(people) : Area(people[j]) <= Area(people[i])
    IN  (Active /\ people # <<>>) =>
            /\ out.target # <<>>
            /\ \E i \in 1..Len(people) :
                 /\ largest(i)
                 /\ \A j \in 1..(i - 1) : ~largest(j)
                 /\ out.target = <<people[i]>>

\* C2: an ACTIVE frame whose detections hold no person (none at all, or only obstacles
\* and other classes) has no target, no steering decision, and shows
\* "SEARCHING FOR USER...".
C2_NoPersonShowsSearching ==
    (Active /\ People(inp.dets) = <<>>) =>
        /\ out.target = <<>>
        /\ out.direction = None
        /\ "SEARCHING FOR USER..." \in out.text

\* C3: the direction shown for a selected target is LEFT exactly when
\* deviation = (x1+x2) div 2 - w div 2 is below -50, RIGHT exactly when it is above 50,
\* FORWARD otherwise (so at -50 and at 50); with w = 640 the centres 220, 400 and 300
\* give LEFT, RIGHT and FORWARD. Nothing else enters: every ACTIVE frame with a
\* target carries the direction this gives.
Deviation(t) == ((t.x1 + t.x2) \div 2) - 320

C3_SteeringDecision ==
    (Active /\ out.target # <<>>) =>
        LET t == out.target[1]
            target_cx == (t.x1 + t.x2) \div 2
        IN  /\ out.direction \in {"LEFT", "RIGHT", "FORWARD"}
            /\ (out.direction = "LEFT") <=> (Deviation(t) < -50)
            /\ (out.direction = "RIGHT") <=> (Deviation(t) > 50)
            /\ (out.direction = "FORWARD") <=> (Deviation(t) >= -50 /\ Deviation(t) <= 50)
            /\ (target_cx = 220) => (out.direction = "LEFT")
            /\ (target_cx = 400) => (out.direction = "RIGHT")
            /\ (target_cx = 300) => (out.direction = "FORWARD")
            /\ out.text = {"STEERING: " \o out.direction}

\* a target exactly on the left edge of the deadband, sent FORWARD
C3_Witness ==
    /\ Active
    /\ out.target # <<>>
    /\ Deviation(out.target[1]) = -50
    /\ out.direction = "FORWARD"

\* C4: the advisory of an ACTIVE frame is this function of its three lane flags:
\* center and not left: GO LEFT; center, left, not right: GO RIGHT; all three: STOP;
\* left only: KEEP RIGHT; right only: KEEP LEFT; otherwise none.
C4_AdvisoryTable ==
    Active =>
        LET l == out.lanes.left_blocked
            c == out.lanes.center_blocked
            r == out.lanes.right_blocked
        IN  /\ out.advisory =
                 CASE c /\ ~l -> "OBSTACLE AHEAD - GO LEFT"
                   [] c /\ l /\ ~r -> "OBSTACLE AHEAD - GO RIGHT"
                   [] c /\ l /\ r -> "OBSTACLE AHEAD - STOP"
                   [] ~c /\ l /\ ~r -> "KEEP RIGHT"
                   [] ~c /\ r /\ ~l -> "KEEP LEFT"
                   [] OTHER -> None
            /\ (out.advisory # None) <=> (out.advisory \in out.text)

\* center and right blocked, left free: GO LEFT
C4_Witness ==
    /\ Active
    /\ out.lanes = [left_blocked |-> FALSE, center_blocked |-> TRUE, right_blocked |-> TRUE]
    /\ out.advisory = "OBSTACLE AHEAD - GO LEFT"

\* C5: every returned frame shows exactly one mode, the first that applies of
\* PRIVACY (is_running false), NO_CAMERA (device not open), NO_SIGNAL (no frame read),
\* NO_MODEL (model is None), DETECTION_ERROR (a fault raised), ACTIVE; it is a
\* function of the conditions of that call alone.
ModeMarkers ==
    { "PRIVACY MODE ON", "Camera Not Accessible", "No Camera Signal",
      "YOLO MODEL UNAVAILABLE", "Detection Error" }

C5_ModePrecedence ==
    (out.kind # "none") =>
        /\ Mode(out) =
             IF ~inp.running THEN "PRIVACY"
             ELSE IF ~video_opened THEN "NO_CAMERA"
             ELSE IF ~inp.readok THEN "NO_SIGNAL"
             ELSE IF model = None THEN "NO_MODEL"
             ELSE IF Raised(inp.dets, inp.fault) THEN "DETECTION_ERROR"
             ELSE "ACTIVE"
        /\ Cardinality(out.text \cap ModeMarkers) <= 1

\* privacy with device and model available, right after a faulty frame
C5_Witness ==
    /\ Mode(out) = "PRIVACY"
    /\ video_opened
    /\ model # None
    /\ faulty_before >= 1

\* C6: a fault raised by the detector or by a later step never leaves get_frame: the
\* stream goes on, the call returns an image in DETECTION_ERROR mode, and a call with
\* no fault (camera and model available) is ACTIVE however many faulty frames came
\* just before it.
C6_FaultContained ==
    /\ streaming
    /\ (out.kind # "none" /\ inp.running /\ video_opened /\ inp.readok /\ model # None) =>
         /\ Raised(inp.dets, inp.fault) =>
              (Mode(out) = "DETECTION_ERROR" /\ out.kind = "image" /\ ~out.propagated)
         /\ ~Raised(inp.dets, inp.fault) => Mode(out) = "ACTIVE"

\* an ACTIVE frame right after a run of faulty frames
C6_Witness ==
    /\ streaming
    /\ faulty_before = MaxFaultRun
    /\ Active
    /\ inp.dets # <<>>

\* the obstacles of the last frame, and those whose bottom edge is on or below 0.6*h
NearObstacles ==
    { i \in 1..Len(Obstacles(inp.dets)) : 10 * Obstacles(inp.dets)[i].y2 >= 6 * 480 }

\* C7: an obstacle sets a lane flag if and only if its bottom edge y2 is not above
\* 0.6*h (y2 >= 288 for h = 480); a frame whose obstacles all lie above the line has
\* the three flags false and no advisory.
C7_DangerZoneFilter ==
    Active =>
        LET obs == Obstacles(inp.dets)
            blocked == out.lanes.left_blocked \/ out.lanes.center_blocked
                         \/ out.lanes.right_blocked
        IN  /\ NearObstacles = { i \in 1..Len(obs) : obs[i].y2 >= 288 }
            /\ blocked <=> (NearObstacles # {})
            /\ (NearObstacles = {}) => (out.lanes = NoLanes /\ out.advisory = None)

\* an obstacle on the line blocks the center while one a pixel above it, on the left,
\* blocks nothing
C7_Witness ==
    /\ Active
    /\ \E i, j \in 1..Len(Obstacles(inp.dets)) :
         /\ Obstacles(inp.dets)[i].y2 = 288
         /\ Obstacles(inp.dets)[j].y2 = 287
    /\ out.lanes = [left_blocked |-> FALSE, center_blocked |-> TRUE, right_blocked |-> FALSE]

Decision(o) == <<Mode(o), o.target, o.direction, o.lanes, o.advisory>>

\* a step of get_frame that changed anything
CallStep ==
    inp' # inp \/ out' # out \/ faulty_before' # faulty_before \/ streaming' # streaming

\* C9: two calls with the same is_running, frame, detections and fault (the device and
\* the model being the same) give the same decision data, whatever was processed
\* between them; and get_frame changes none of is_running, model, target_id.
C9_SameInputsSameDecision ==
    /\ [](ref.set /\ ref.inp = inp => Decision(ref.out) = Decision(out))
    /\ [][CallStep => (is_running' = is_running /\ model' = model /\ target_id' = target_id)]_vars

\* a call repeating a remembered one after a faulty frame came between them
C9_Witness ==
    /\ ref.set
    /\ ref.inp = inp
    /\ ref.fb = 0
    /\ faulty_before = 1
    /\ out.direction = "FORWARD"

\* C10: a call that finds is_running false asks the device nothing (no isOpened, no
\* read), runs no detector, and returns the placeholder "PRIVACY MODE ON".
C10_PrivacySkipsCapture ==
    [][(CallStep /\ ~is_running) =>
          (out'.calls = {} /\ out'.kind = "blank" /\ out'.text = {"PRIVACY MODE ON"})]_vars

\* a privacy frame although device and model are available
C10_Witness ==
    /\ ~is_running
    /\ ~inp.running
    /\ video_opened
    /\ model # None
    /\ Mode(out) = "PRIVACY"
    /\ out.calls = {}

\* C13: wherever the fault is raised, the frame returned in DETECTION_ERROR mode is
\* the raw resized frame with the error message alone, cut to at most 30 characters:
\* no box, no target box, no arrow, no steering text and no advisory drawn before the
\* fault is on it.
C13_ErrorFrameCarriesOnlyMessage ==
    (Mode(out) = "DETECTION_ERROR") =>
        /\ out.text = {"Detection Error"}
        /\ out.errlen <= 30
        /\ out.errlen = (IF ErrLen(inp.fault) > 30 THEN 30 ELSE ErrLen(inp.fault))
        /\ out.boxes = 0
        /\ ~out.strong
        /\ out.arrow = <<>>

\* C11: at most one VideoCamera is ever constructed, and every get_camera() call that
\* returns a camera returns the same instance, however the requests interleave.
C11_OneCameraEver ==
    /\ constructed <= 1
    /\ \A t, u \in Threads :
         (th[t].cam # 0 /\ th[u].cam # 0) => th[t].cam = th[u].cam
    /\ \A t \in Threads : th[t].cam # 0 => th[t].cam = 1

\* C12: a toggle_camera request with {"run": true} answers and sets ON, with
\* {"run": false} OFF, its answer is the state it set, and a request without body
\* negates the state: once NThreads bodiless toggles, handled in any interleaving, are
\* all answered, the camera that was ON is ON again if their number is even (two
\* toggles restore it) and OFF if it is odd.
C12_ToggleContract ==
    /\ \A t \in Threads :
         (th[t].pc = "done" /\ th[t].kind = "toggle_camera") =>
             /\ th[t].body = "true" => th[t].running = "true"
             /\ th[t].body = "false" => th[t].running = "false"
             /\ th[t].running = (IF th[t].should_run THEN "true" ELSE "false")
    /\ (\A t \in Threads :
          th[t].pc = "done" /\ th[t].kind = "toggle_camera" /\ th[t].body = "none")
         => (is_running <=> (NThreads % 2 = 0))

====
